---- MODULE Spec2Model ----
(***************************************************************************)
(* Model of lib/assets/caniuse.js: the three module-level tables           *)
(* (vendorsDB, cssDB, erasDB), load (= parseDB) and resolvePrefixes.       *)
(*                                                                         *)
(* JavaScript values are modelled as follows.                              *)
(*   - null / undefined / an object / an array are records with a `kind`   *)
(*     and `entries`; an object's entries are its own properties in key    *)
(*     order, as <<[key, value], ...>>; an array's entries are its items.  *)
(*   - strings that the code only compares or measures (vendor names,      *)
(*     prefixes, version labels, identifiers) are TLA+ strings.            *)
(*   - strings that the code takes apart (era identifiers: substr and      *)
(*     parseInt; support codes: indexOf('x')) are sequences of             *)
(*     one-character strings.                                              *)
(*   - array positions are 0-based numbers as in the code; the operators   *)
(*     convert to TLA+'s 1-based sequences where they index.               *)
(***************************************************************************)
EXTENDS Integers, Sequences, FiniteSets, TLC

VARIABLES
    vendorsDB,  \* caniuse.js:60
    cssDB,      \* caniuse.js:58
    erasDB,     \* caniuse.js:61
    prefs,      \* the three preferences the module reads
    call,       \* the last call made on the exported object
    result,     \* what that call returned or threw
    repeated    \* TRUE when the last call was a load whose argument was
                \* also the argument of the call right before it

vars == <<vendorsDB, cssDB, erasDB, prefs, call, result, repeated>>

----------------------------------------------------------------------------
(* JavaScript values *)

Null == [kind |-> "null", entries |-> <<>>]
Undefined == [kind |-> "undefined", entries |-> <<>>]
Obj(entries) == [kind |-> "object", entries |-> entries]
Arr(items) == [kind |-> "array", entries |-> items]
P(k, v) == [key |-> k, value |-> v]

\* A function object reached through the prototype chain; it has none of the
\* properties the code asks it for.
InheritedFunction == [kind |-> "function", entries |-> <<>>]

\* Property names every plain object inherits from Object.prototype.
ObjectPrototype ==
    {"constructor", "toString", "toLocaleString", "valueOf",
     "hasOwnProperty", "isPrototypeOf", "propertyIsEnumerable"}

IsObject(x) == x.kind = "object"

\* _.keys(x): the own keys in order; [] for null and undefined.
Keys(x) == [i \in DOMAIN x.entries |-> x.entries[i].key]

HasOwn(x, k) == IsObject(x) /\ \E i \in DOMAIN x.entries : x.entries[i].key = k

\* x[k] for an own property of an object, undefined otherwise.
Get(x, k) ==
    IF HasOwn(x, k)
    THEN (CHOOSE e \in {x.entries[i] : i \in DOMAIN x.entries} : e.key = k).value
    ELSE Undefined

\* `k in x`: own or inherited.
In(k, x) == HasOwn(x, k) \/ (IsObject(x) /\ k \in ObjectPrototype)

\* x[k] on a plain object whose `k in x` holds.
GetIn(x, k) == IF HasOwn(x, k) THEN Get(x, k) ELSE InheritedFunction

\* x[k] = v on an object: replaces an own property in place, or appends it.
Put(x, k, v) ==
    IF HasOwn(x, k)
    THEN Obj([i \in DOMAIN x.entries |->
                IF x.entries[i].key = k THEN P(k, v) ELSE x.entries[i]])
    ELSE Obj(Append(x.entries, P(k, v)))

\* _.indexOf(array, x): 0-based position of the first x, -1 if none
\* (also -1 on null).
IndexOf(arr, x) ==
    IF \E i \in DOMAIN arr.entries : arr.entries[i] = x
    THEN (CHOOSE i \in DOMAIN arr.entries :
             /\ arr.entries[i] = x
             /\ \A j \in DOMAIN arr.entries : arr.entries[j] = x => i <= j) - 1
    ELSE -1

\* Array.prototype.slice(start) on a sequence: a negative start counts from
\* the end, a start past the end gives [].
Slice(s, start) ==
    LET from == IF start < 0
                THEN (IF Len(s) + start < 0 THEN 0 ELSE Len(s) + start)
                ELSE (IF start > Len(s) THEN Len(s) ELSE start)
    IN  SubSeq(s, from + 1, Len(s))

\* String.prototype.indexOf(c) /= -1 on a string of characters.
Contains(chars, c) == \E i \in DOMAIN chars : chars[i] = c

\* `!v` for a version label: the JSON null of an era without a release.
NoVersion == "null"
Falsy(v) == v = NoVersion \/ v = ""

----------------------------------------------------------------------------
(* parseInt(a.substr(1)) *)

Digits == {"0", "1", "2", "3", "4", "5", "6", "7", "8", "9"}

DigitValue(c) ==
    CASE c = "0" -> 0 [] c = "1" -> 1 [] c = "2" -> 2 [] c = "3" -> 3
      [] c = "4" -> 4 [] c = "5" -> 5 [] c = "6" -> 6 [] c = "7" -> 7
      [] c = "8" -> 8 [] c = "9" -> 9

\* a.substr(1)
Substr1(chars) == IF chars = <<>> THEN <<>> ELSE Tail(chars)

\* The leading run of digits of chars, read in base 10 onto acc.
RECURSIVE ReadDigits(_, _)
ReadDigits(chars, acc) ==
    IF chars = <<>> \/ Head(chars) \notin Digits
    THEN acc
    ELSE ReadDigits(Tail(chars), 10 * acc + DigitValue(Head(chars)))

\* parseInt gives NaN when no digit follows the optional sign.
IsNaN(chars) ==
    LET body == IF chars # <<>> /\ Head(chars) \in {"-", "+"}
                THEN Tail(chars) ELSE chars
    IN  body = <<>> \/ Head(body) \notin Digits

\* parseInt(chars) when it is a number.
ParseInt(chars) ==
    IF chars # <<>> /\ Head(chars) = "-" THEN 0 - ReadDigits(Tail(chars), 0)
    ELSE IF chars # <<>> /\ Head(chars) = "+" THEN ReadDigits(Tail(chars), 0)
    ELSE ReadDigits(chars, 0)

\* The comparator of parseEra; a NaN difference counts as 0.
EraCompare(a, b) ==
    IF IsNaN(Substr1(a)) \/ IsNaN(Substr1(b))
    THEN 0
    ELSE ParseInt(Substr1(a)) - ParseInt(Substr1(b))

----------------------------------------------------------------------------
(* The static table of feature sections *)

cssSections ==
    [section \in
       {"border-image", "css-boxshadow", "css3-boxsizing", "multicolumn",
        "border-radius", "transforms2d", "css-hyphens", "css-transitions",
        "font-feature", "css-animation", "css-gradients", "css-masks",
        "css-featurequeries", "flexbox", "calc", "object-fit", "css-grid",
        "css-repeating-gradients", "css-filters", "user-select-none",
        "intrinsic-width", "css3-tabsize"} |->
     CASE section = "border-image" -> <<"border-image">>
       [] section = "css-boxshadow" -> <<"box-shadow">>
       [] section = "css3-boxsizing" -> <<"box-sizing">>
       [] section = "multicolumn" ->
            <<"column-width", "column-count", "columns", "column-gap",
              "column-rule-color", "column-rule-style", "column-rule-width",
              "column-rule", "column-span", "column-fill">>
       [] section = "border-radius" ->
            <<"border-radius", "border-top-left-radius",
              "border-top-right-radius", "border-bottom-right-radius",
              "border-bottom-left-radius">>
       [] section = "transforms2d" -> <<"transform">>
       [] section = "css-hyphens" -> <<"hyphens">>
       [] section = "css-transitions" ->
            <<"transition", "transition-property", "transition-duration",
              "transition-timing-function", "transition-delay">>
       [] section = "font-feature" -> <<"font-feature-settings">>
       [] section = "css-animation" ->
            <<"animation", "animation-name", "animation-duration",
              "animation-timing-function", "animation-iteration-count",
              "animation-direction", "animation-play-state",
              "animation-delay", "animation-fill-mode", "@keyframes">>
       [] section = "css-gradients" -> <<"linear-gradient">>
       [] section = "css-masks" ->
            <<"mask-image", "mask-source-type", "mask-repeat",
              "mask-position", "mask-clip", "mask-origin", "mask-size",
              "mask", "mask-type", "mask-box-image-source",
              "mask-box-image-slice", "mask-box-image-width",
              "mask-box-image-outset", "mask-box-image-repeat",
              "mask-box-image", "clip-path", "clip-rule">>
       [] section = "css-featurequeries" -> <<"@supports">>
       [] section = "flexbox" ->
            <<"flex", "inline-flex", "flex-direction", "flex-wrap",
              "flex-flow", "order", "flex">>
       [] section = "calc" -> <<"calc">>
       [] section = "object-fit" -> <<"object-fit", "object-position">>
       [] section = "css-grid" ->
            <<"grid", "inline-grid", "grid-template-rows",
              "grid-template-columns", "grid-template-areas",
              "grid-template", "grid-auto-rows", "grid-auto-columns",
              " grid-auto-flow", "grid-auto-position", "grid",
              " grid-row-start", "grid-column-start", "grid-row-end",
              "grid-column-end", "grid-column", "grid-row", "grid-area",
              "justify-self", "justify-items", "align-self", "align-items">>
       [] section = "css-repeating-gradients" -> <<"repeating-linear-gradient">>
       [] section = "css-filters" -> <<"filter">>
       [] section = "user-select-none" -> <<"user-select">>
       [] section = "intrinsic-width" ->
            <<"min-content", "max-content", "fit-content", "fill-available">>
       [] section = "css3-tabsize" -> <<"tab-size">>]

\* cssSections[name] when `name in cssSections`; the inherited properties
\* are functions, over which _.each visits nothing.
SectionKeywords(name) ==
    IF name \in DOMAIN cssSections THEN cssSections[name] ELSE <<>>

----------------------------------------------------------------------------
(* Outcomes of a call *)

Returned(v) == [kind |-> "return", value |-> v]
Thrown(e) == [kind |-> "throw", value |-> [kind |-> e, entries |-> <<>>]]
NoCall == [kind |-> "none", value |-> Undefined]

IsThrown(r) == r.kind = "throw"

----------------------------------------------------------------------------
(* parseDB and its three parsers *)

\* JSON.parse on serialized text. A text is modelled by whether it is
\* well-formed JSON and, when it is, by the value it encodes.
JSONParse(text) ==
    IF text.wellFormed THEN Returned(text.decoded) ELSE Thrown("SyntaxError")

\* parseVendors(data): one {prefix, versions} per agent, in the agents' order.
\* Reading data.agents throws on null.
ParseVendors(data) ==
    IF ~IsObject(data) THEN Thrown("TypeError")
    ELSE Returned(Obj([i \in DOMAIN data.agents.entries |->
            P(data.agents.entries[i].key,
              [prefix |-> data.agents.entries[i].value.prefix,
               versions |-> data.agents.entries[i].value.versions])]))

\* The inner _.each of parseCSS: out[kw] = stats for each kw in turn.
RECURSIVE AssignKeywords(_, _, _)
AssignKeywords(out, kws, stats) ==
    IF kws = <<>> THEN out
    ELSE AssignKeywords(Put(out, Head(kws), stats), Tail(kws), stats)

\* The outer _.each of parseCSS over the sections of data.data.
RECURSIVE AssignSections(_, _)
AssignSections(out, sections) ==
    IF sections = <<>> THEN out
    ELSE LET s == Head(sections)
         IN  AssignSections(
                IF s.key \in DOMAIN cssSections \/ s.key \in ObjectPrototype
                THEN AssignKeywords(out, SectionKeywords(s.key), s.value.stats)
                ELSE out,
                Tail(sections))

\* parseCSS(data). Reading data.cats.CSS throws when data has no cats.
ParseCSS(data) ==
    IF ~IsObject(data) \/ ~IsObject(data.cats) THEN Thrown("TypeError")
    ELSE Returned(AssignSections(Obj(<<>>), data.data.entries))

\* Array.prototype.sort with the comparator of parseEra, as a stable
\* insertion sort: x goes before the first item that compares greater.
RECURSIVE InsertEra(_, _)
InsertEra(sorted, x) ==
    IF sorted = <<>> THEN <<x>>
    ELSE IF EraCompare(Head(sorted), x) > 0 THEN <<x>> \o sorted
    ELSE <<Head(sorted)>> \o InsertEra(Tail(sorted), x)

RECURSIVE SortEras(_)
SortEras(keys) ==
    IF keys = <<>> THEN <<>>
    ELSE InsertEra(SortEras(SubSeq(keys, 1, Len(keys) - 1)), keys[Len(keys)])

\* A plausible slip: the keys as the host happens to list them.
ParseEraUnsorted(data) == Arr(Keys(data.eras))

\* parseEra(data): the keys of data.eras, sorted. It never throws.
ParseEra(data) == Arr(SortEras(Keys(data.eras)))

\* A plausible slip: the tables are cleared before the text is decoded, so a
\* text that does not decode leaves them unset.
ParseDBResetFirst(vdb, cdb, edb, raw) ==
    LET none == [vendorsDB |-> Null, cssDB |-> Null, erasDB |-> Null]
        decoded == IF raw.kind = "string" THEN JSONParse(raw) ELSE Returned(raw)
    IN  IF IsThrown(decoded)
        THEN [tables |-> none, outcome |-> decoded]
        ELSE
          LET data == decoded.value
              v == ParseVendors(data)
              c == ParseCSS(data)
          IN  IF IsThrown(v) THEN [tables |-> none, outcome |-> v]
              ELSE IF IsThrown(c)
              THEN [tables |-> [none EXCEPT !.vendorsDB = v.value],
                    outcome |-> c]
              ELSE [tables |-> [vendorsDB |-> v.value, cssDB |-> c.value,
                                erasDB |-> ParseEra(data)],
                    outcome |-> Returned(Undefined)]

\* A plausible slip: a vendor already in vendorsDB is merged with the parsed
\* one, its versions appended, instead of replaced.
ParseDBAppendVersions(vdb, cdb, edb, raw) ==
    LET kept == [vendorsDB |-> vdb, cssDB |-> cdb, erasDB |-> edb]
        decoded == IF raw.kind = "string" THEN JSONParse(raw) ELSE Returned(raw)
        Merge(parsed) ==
            Obj([i \in DOMAIN parsed.entries |->
                   LET e == parsed.entries[i]
                   IN  IF HasOwn(vdb, e.key)
                       THEN P(e.key, [prefix |-> e.value.prefix,
                                      versions |-> Get(vdb, e.key).versions
                                                     \o e.value.versions])
                       ELSE e])
    IN  IF IsThrown(decoded)
        THEN [tables |-> kept, outcome |-> decoded]
        ELSE
          LET data == decoded.value
              v == ParseVendors(data)
              c == ParseCSS(data)
          IN  IF IsThrown(v) THEN [tables |-> kept, outcome |-> v]
              ELSE IF IsThrown(c)
              THEN [tables |-> [kept EXCEPT !.vendorsDB = Merge(v.value)],
                    outcome |-> c]
              ELSE [tables |-> [vendorsDB |-> Merge(v.value),
                                cssDB |-> c.value,
                                erasDB |-> ParseEra(data)],
                    outcome |-> Returned(Undefined)]

\* parseDB(raw) on the tables (vdb, cdb, edb): the tables it leaves and how
\* the call ended. The three assignments happen in turn, so a throw of
\* parseCSS comes after vendorsDB was replaced.
ParseDB(vdb, cdb, edb, raw) ==
    LET kept == [vendorsDB |-> vdb, cssDB |-> cdb, erasDB |-> edb]
        decoded == IF raw.kind = "string" THEN JSONParse(raw) ELSE Returned(raw)
    IN  IF IsThrown(decoded)
        THEN [tables |-> kept, outcome |-> decoded]
        ELSE
          LET data == decoded.value
              v == ParseVendors(data)
              c == ParseCSS(data)
          IN  IF IsThrown(v) THEN [tables |-> kept, outcome |-> v]
              ELSE IF IsThrown(c)
              THEN [tables |-> [kept EXCEPT !.vendorsDB = v.value],
                    outcome |-> c]
              ELSE [tables |-> [vendorsDB |-> v.value, cssDB |-> c.value,
                                erasDB |-> ParseEra(data)],
                    outcome |-> Returned(Undefined)]

----------------------------------------------------------------------------
(* resolvePrefixes and its helpers *)

\* The default of the caniuse.era preference, and the fallback of
\* getVersionSlice.
DefaultEra == <<"e", "-", "2">>

\* _.intersection(a, b): the items of a that are in b, in a's order.
Intersection(a, b) == SelectSeq(a, LAMBDA x : \E i \in DOMAIN b : b[i] = x)

\* prefs.getArray('caniuse.vendors'): null when no list is configured (an
\* empty value), otherwise the configured names in order.
GetArray(p) == p.vendors

\* A plausible slip: the "all" sentinel is not recognised.
GetVendorsListNoSentinel(vdb, p) ==
    IF GetArray(p).kind = "null"
    THEN Keys(vdb)
    ELSE Intersection(Keys(vdb), GetArray(p).entries)

\* getVendorsList()
GetVendorsList(vdb, p) ==
    LET allVendors == Keys(vdb)
        vendors == GetArray(p)
    IN  IF vendors.kind = "null"
           \/ (vendors.entries # <<>> /\ vendors.entries[1] = "all")
        THEN allVendors
        ELSE Intersection(allVendors, vendors.entries)

\* getVersionSlice()
GetVersionSlice(edb, p) ==
    LET ix == IndexOf(edb, p.era)
    IN  IF ix = -1 THEN IndexOf(edb, DefaultEra) ELSE ix

\* The for loop over one vendor's sliced versions, from position i (1-based):
\* "push" when a scanned code contains x, "none" when the loop runs out,
\* "throw" when propStats[vendor][v].indexOf fails on a missing row or cell.
RECURSIVE ScanVersions(_, _, _, _)
ScanVersions(propStats, vendor, vs, i) ==
    IF i > Len(vs) THEN "none"
    ELSE IF Falsy(vs[i]) THEN ScanVersions(propStats, vendor, vs, i + 1)
    ELSE IF ~HasOwn(propStats, vendor) THEN "throw"
    ELSE IF ~HasOwn(Get(propStats, vendor), vs[i]) THEN "throw"
    ELSE IF Contains(Get(Get(propStats, vendor), vs[i]), "x") THEN "push"
    ELSE ScanVersions(propStats, vendor, vs, i + 1)

\* The _.each over the vendors: the prefixes pushed, or the throw that ends it.
RECURSIVE EachVendor(_, _, _, _, _)
EachVendor(vendors, vdb, propStats, versions, prefixes) ==
    IF vendors = <<>> THEN Returned(Arr(prefixes))
    ELSE
      LET vendor == Head(vendors)
          vendorVesions == Slice(Get(vdb, vendor).versions, versions)
          scan == ScanVersions(propStats, vendor, vendorVesions, 1)
      IN  IF scan = "throw" THEN Thrown("TypeError")
          ELSE EachVendor(Tail(vendors), vdb, propStats, versions,
                          IF scan = "push"
                          THEN Append(prefixes, Get(vdb, vendor).prefix)
                          ELSE prefixes)

\* _.unique(list): the first occurrence of each item, in order.
RECURSIVE Unique(_)
Unique(list) ==
    IF list = <<>> THEN <<>>
    ELSE LET front == Unique(SubSeq(list, 1, Len(list) - 1))
             x == list[Len(list)]
         IN  IF \E i \in DOMAIN front : front[i] = x THEN front
             ELSE Append(front, x)

\* Array.prototype.sort with the comparator b.length - a.length, as a stable
\* insertion sort: x goes before the first item that is shorter.
RECURSIVE InsertByLength(_, _)
InsertByLength(sorted, x) ==
    IF sorted = <<>> THEN <<x>>
    ELSE IF Len(x) - Len(Head(sorted)) > 0 THEN <<x>> \o sorted
    ELSE <<Head(sorted)>> \o InsertByLength(Tail(sorted), x)

\* A plausible slip: the comparator the other way round (a.length - b.length).
RECURSIVE SortByLengthAscending(_)
SortByLengthAscending(list) ==
    IF list = <<>> THEN <<>>
    ELSE LET sorted == SortByLengthAscending(SubSeq(list, 1, Len(list) - 1))
             x == list[Len(list)]
             shorter == SelectSeq(sorted, LAMBDA y : Len(y) <= Len(x))
             longer == SelectSeq(sorted, LAMBDA y : Len(y) > Len(x))
         IN  shorter \o <<x>> \o longer

RECURSIVE SortByLength(_)
SortByLength(list) ==
    IF list = <<>> THEN <<>>
    ELSE InsertByLength(SortByLength(SubSeq(list, 1, Len(list) - 1)),
                        list[Len(list)])

\* resolvePrefixes(property) on the tables (vdb, cdb, edb) with preferences p.
ResolvePrefixes(vdb, cdb, edb, p, property) ==
    IF ~p.enabled \/ cdb.kind = "null" \/ ~In(property, cdb)
    THEN Returned(Null)
    ELSE
      LET propStats == GetIn(cdb, property)
          versions == GetVersionSlice(edb, p)
          pushed == EachVendor(GetVendorsList(vdb, p), vdb, propStats,
                               versions, <<>>)
      IN  IF IsThrown(pushed) THEN pushed
          ELSE Returned(Arr(SortByLength(Unique(pushed.value.entries))))

----------------------------------------------------------------------------
(* The raw databases and preference values the calls are made with *)

\* Era identifiers.
EraM10 == <<"e", "-", "1", "0">>
EraM2 == <<"e", "-", "2">>
EraM1 == <<"e", "-", "1">>
Era0 == <<"e", "0">>
Era1 == <<"e", "1">>
Era5 == <<"e", "5">>
Era10 == <<"e", "1", "0">>

\* Support codes.
CodeY == <<"y">>
CodeN == <<"n">>
CodeAX == <<"a", " ", "x">>
CodeYX == <<"y", " ", "x">>
CodeAXD == <<"a", " ", "x", " ", "d", " ", "#", "1">>

Agent(prefix, versions) == [prefix |-> prefix, versions |-> versions]
Section(stats) == [stats |-> stats]
Document(agents, cats, data, eras) ==
    [kind |-> "object", entries |-> <<>>,
     agents |-> agents, cats |-> cats, data |-> data, eras |-> eras]
Text(wellFormed, decoded) ==
    [kind |-> "string", entries |-> <<>>,
     wellFormed |-> wellFormed, decoded |-> decoded]

Cats == Obj(<<P("CSS", Arr(<<"CSS", "CSS3">>))>>)

\* Vendors A and B over three eras; `transform` needs a prefix for A at v2
\* only. The eras come out of order.
Scenario ==
    Document(
      Obj(<<P("A", Agent("-a-", <<"v1", "v2", "v3">>)),
            P("B", Agent("-b-", <<"w1", "w2", "w3">>))>>),
      Cats,
      Obj(<<P("png-alpha", Section(Obj(<<P("A", Obj(<<P("v1", CodeY)>>))>>))),
            P("transforms2d", Section(Obj(<<
               P("A", Obj(<<P("v1", CodeY), P("v2", CodeAX), P("v3", CodeY)>>)),
               P("B", Obj(<<P("w1", CodeY), P("w2", CodeY), P("w3", CodeY)>>))
            >>)))>>),
      Obj(<<P(Era0, "now"), P(EraM2, "2 back"), P(EraM1, "1 back")>>))

\* Two vendors share -webkit-; eras without a release; a short version list.
Webkit ==
    Document(
      Obj(<<P("opera", Agent("-o-", <<"9", "10", "11">>)),
            P("chrome", Agent("-webkit-", <<"4", NoVersion, "6">>)),
            P("safari", Agent("-webkit-", <<"3.1">>)),
            P("firefox", Agent("-moz-", <<NoVersion, NoVersion, "3">>))>>),
      Cats,
      Obj(<<P("flexbox", Section(Obj(<<
               P("opera", Obj(<<P("9", CodeN), P("10", CodeAXD), P("11", CodeY)>>)),
               P("chrome", Obj(<<P("4", CodeYX), P("6", CodeY)>>)),
               P("safari", Obj(<<P("3.1", CodeAX)>>)),
               P("firefox", Obj(<<P("3", CodeY)>>))
            >>))),
            P("css-animation", Section(Obj(<<
               P("opera", Obj(<<P("9", CodeN), P("10", CodeN), P("11", CodeY)>>)),
               P("chrome", Obj(<<P("4", CodeN), P("6", CodeYX)>>)),
               P("safari", Obj(<<P("3.1", CodeN)>>)),
               P("firefox", Obj(<<P("3", CodeYX)>>))
            >>)))>>),
      Obj(<<P(EraM1, "1 back"), P(Era0, "now"), P(EraM2, "2 back")>>))

\* As Scenario, with cells missing: A has no code for v1, B has no row.
Incomplete ==
    Document(
      Obj(<<P("A", Agent("-a-", <<"v1", "v2", "v3">>)),
            P("B", Agent("-b-", <<"w1", "w2", "w3">>))>>),
      Cats,
      Obj(<<P("transforms2d", Section(Obj(<<
               P("A", Obj(<<P("v2", CodeAX), P("v3", CodeY)>>))
            >>)))>>),
      Obj(<<P(EraM2, "2 back"), P(EraM1, "1 back"), P(Era0, "now")>>))

\* The three sections of a database, and no `cats`.
NoCats ==
    Document(
      Obj(<<P("C", Agent("-c-", <<"u1", "u2", "u3">>))>>),
      Undefined,
      Obj(<<P("transforms2d", Section(Obj(<<
               P("C", Obj(<<P("u1", CodeAX), P("u2", CodeY), P("u3", CodeY)>>))
            >>)))>>),
      Obj(<<P(EraM2, "2 back"), P(EraM1, "1 back"), P(Era0, "now")>>))

\* A database whose eras do not include e-2.
NoDefaultEra ==
    Document(
      Obj(<<P("A", Agent("-a-", <<"v1", "v2">>))>>),
      Cats,
      Obj(<<P("transforms2d", Section(Obj(<<
               P("A", Obj(<<P("v1", CodeAX), P("v2", CodeY)>>))
            >>)))>>),
      Obj(<<P(Era1, "next"), P(Era0, "now")>>))

\* A document with `cats` alone.
Empty == Document(Undefined, Cats, Undefined, Undefined)

BadText == Text(FALSE, Undefined)
ScenarioText == Text(TRUE, Scenario)
NullText == Text(TRUE, Null)

RawInputs ==
    {Scenario, Webkit, Incomplete, NoCats, NoDefaultEra, Empty,
     BadText, ScenarioText, NullText}

\* What ../caniuse.json may hold when the module is constructed: no file
\* (db stays null), or a database.
BundledFiles == {Null, ScenarioText}

Identifiers == {"transform", "flex", "@keyframes", "foo", "constructor"}

VendorLists ==
    {Null, Arr(<<"all">>), Arr(<<"B">>), Arr(<<"all", "B">>),
     Arr(<<"A", "Z">>), Arr(<<"safari", "opera">>)}

EraPrefs == {EraM2, EraM1, Era0, Era5}

DefaultPrefs == [enabled |-> TRUE, vendors |-> Arr(<<"all">>), era |-> DefaultEra]

----------------------------------------------------------------------------
(* The state machine *)

NoTables == [vendorsDB |-> Null, cssDB |-> Null, erasDB |-> Null]

Tables == [vendorsDB |-> vendorsDB, cssDB |-> cssDB, erasDB |-> erasDB]

\* The module body: the tables start null, and parseDB(db) runs when the
\* bundled file was read. A throw there fails the construction.
Init ==
    \E db \in BundledFiles :
      LET loaded == IF db.kind = "string"
                    THEN ParseDB(Null, Null, Null, db)
                    ELSE [tables |-> NoTables, outcome |-> Returned(Undefined)]
      IN  /\ ~IsThrown(loaded.outcome)
          /\ vendorsDB = loaded.tables.vendorsDB
          /\ cssDB = loaded.tables.cssDB
          /\ erasDB = loaded.tables.erasDB
          /\ prefs = DefaultPrefs
          /\ call = [op |-> "none", arg |-> Undefined]
          /\ result = NoCall
          /\ repeated = FALSE

\* load(raw)
Load(raw) ==
    LET parsed == ParseDB(vendorsDB, cssDB, erasDB, raw)
    IN  /\ vendorsDB' = parsed.tables.vendorsDB
        /\ cssDB' = parsed.tables.cssDB
        /\ erasDB' = parsed.tables.erasDB
        /\ call' = [op |-> "load", arg |-> raw]
        /\ result' = parsed.outcome
        /\ repeated' = (call.op = "load" /\ call.arg = raw)
        /\ UNCHANGED prefs

\* resolvePrefixes(property)
Resolve(property) ==
    /\ call' = [op |-> "resolvePrefixes", arg |-> property]
    /\ result' = ResolvePrefixes(vendorsDB, cssDB, erasDB, prefs, property)
    /\ repeated' = FALSE
    /\ UNCHANGED <<vendorsDB, cssDB, erasDB, prefs>>

\* The user changes a preference.
SetEnabled(b) ==
    /\ prefs' = [prefs EXCEPT !.enabled = b]
    /\ UNCHANGED <<vendorsDB, cssDB, erasDB, call, result, repeated>>

SetVendors(list) ==
    /\ prefs' = [prefs EXCEPT !.vendors = list]
    /\ UNCHANGED <<vendorsDB, cssDB, erasDB, call, result, repeated>>

SetEra(era) ==
    /\ prefs' = [prefs EXCEPT !.era = era]
    /\ UNCHANGED <<vendorsDB, cssDB, erasDB, call, result, repeated>>

LoadAny == \E raw \in RawInputs : Load(raw)
ResolveAny == \E property \in Identifiers : Resolve(property)
SetEnabledAny == \E b \in BOOLEAN : SetEnabled(b)
SetVendorsAny == \E list \in VendorLists : SetVendors(list)
SetEraAny == \E era \in EraPrefs : SetEra(era)

Next == LoadAny \/ ResolveAny \/ SetEnabledAny \/ SetVendorsAny \/ SetEraAny

Spec == Init /\ [][Next]_vars

----------------------------------------------------------------------------
(* parseEra on eras sections in every key order *)

MaxEras == 3

EraKeys == {EraM10, EraM2, EraM1, Era0, Era1, Era10}

\* The eras sections of at most MaxEras keys, in every order a host may
\* list them.
EraSections ==
    {Obj([i \in DOMAIN order |-> P(order[i], "label")]) :
        order \in {o \in UNION {[1..n -> EraKeys] : n \in 0..MaxEras} :
                      \A i, j \in DOMAIN o : i # j => o[i] # o[j]}}

WithEras(doc, eras) == [doc EXCEPT !.eras = eras]

LoadEras == \E eras \in EraSections : Load(WithEras(Scenario, eras))

NextEra == LoadEras

SpecEra == Init /\ [][NextEra]_vars

----------------------------------------------------------------------------
(* Vocabulary of the properties *)

\* The step is a resolvePrefixes call (it reads the tables and the
\* preferences of the state it starts in).
ResolveStep ==
    /\ call'.op = "resolvePrefixes"
    /\ UNCHANGED <<vendorsDB, cssDB, erasDB, prefs>>

IsList(r) == r.kind = "return" /\ r.value.kind = "array"

Range(s) == {s[i] : i \in DOMAIN s}

\* The document a load argument stands for.
Decoded(raw) == IF raw.kind = "string" THEN raw.decoded ELSE raw

\* The integer after the leading e of an era identifier.
EraNumber(key) == ParseInt(Substr1(key))

\* The prefixes the specified scan collects for identifier `property`: those
\* of the vendors of `vendors` that have, at a position from `start` on, a
\* version that is not absent and whose support code exists and contains x.
\* A missing row or cell counts as not flagged.
FlaggedPrefixes(vdb, cdb, vendors, start, property) ==
    {Get(vdb, V).prefix : V \in
        {W \in Range(vendors) :
            \E i \in DOMAIN Get(vdb, W).versions :
               LET v == Get(vdb, W).versions[i]
                   row == Get(Get(cdb, property), W)
               IN  /\ start <= i - 1
                   /\ ~Falsy(v)
                   /\ HasOwn(row, v)
                   /\ Contains(Get(row, v), "x")}}

\* Some vendor of `vendors` has, at a position from `start` on, a version
\* that is not absent and has no support code (no row, or no entry in it).
HasMissingCell(vdb, cdb, vendors, start, property) ==
    \E W \in Range(vendors) :
       \E i \in DOMAIN Get(vdb, W).versions :
          LET v == Get(vdb, W).versions[i]
          IN  /\ start <= i - 1
              /\ ~Falsy(v)
              /\ ~HasOwn(Get(Get(cdb, property), W), v)

----------------------------------------------------------------------------
(* C1 *)

\* C1: resolvePrefixes(identifier) returns null whenever the feature is
\* disabled, or no database has been loaded, or identifier has no entry in
\* the property-support matrix; in every other case it returns a list.
C1_SentinelOrList ==
    [][ResolveStep =>
          IF ~prefs.enabled \/ cssDB.kind = "null" \/ ~HasOwn(cssDB, call'.arg)
          THEN result' = Returned(Null)
          ELSE IsList(result')]_vars

----------------------------------------------------------------------------
(* C2 *)

\* C2: after any sequence of load calls the three tables are all unset, or
\* all three are the parse of one single load input.
C2_TablesFromOneLoad ==
    \/ Tables = NoTables
    \/ \E raw \in RawInputs :
          LET parsed == ParseDB(Null, Null, Null, raw)
          IN  ~IsThrown(parsed.outcome) /\ Tables = parsed.tables

----------------------------------------------------------------------------
(* C4 *)

\* C4: when a scanned (vendor, version) pair of a known identifier has no
\* support code, resolvePrefixes does not fail: the pair counts as not
\* flagged and the result is the list of the prefixes flagged elsewhere.
C4_MissingCellNotFatal ==
    [][(/\ ResolveStep
        /\ prefs.enabled
        /\ HasOwn(cssDB, call'.arg)
        /\ HasMissingCell(vendorsDB, cssDB, GetVendorsList(vendorsDB, prefs),
                          GetVersionSlice(erasDB, prefs), call'.arg))
       => /\ IsList(result')
          /\ Range(result'.value.entries) =
               FlaggedPrefixes(vendorsDB, cssDB, GetVendorsList(vendorsDB, prefs),
                               GetVersionSlice(erasDB, prefs), call'.arg)]_vars

----------------------------------------------------------------------------
(* C5 *)

\* C5: for a known identifier, with the feature enabled and the configured
\* era at position start of eraOrder, the result holds exactly the prefixes
\* of the effective vendors that have, at a position from start on, a version
\* that is not absent and whose support code contains x.
C5_ExactlyTheFlaggedPrefixes ==
    [][(/\ ResolveStep
        /\ prefs.enabled
        /\ HasOwn(cssDB, call'.arg)
        /\ IndexOf(erasDB, prefs.era) # -1)
       => /\ IsList(result')
          /\ Range(result'.value.entries) =
               FlaggedPrefixes(vendorsDB, cssDB, GetVendorsList(vendorsDB, prefs),
                               IndexOf(erasDB, prefs.era), call'.arg)]_vars

----------------------------------------------------------------------------
(* C10 *)

\* C10: the starting era index is a valid position of eraOrder, that of the
\* configured era when eraOrder has it and that of e-2 otherwise; with a
\* configured era absent from eraOrder, resolvePrefixes on a known identifier
\* still returns a list.
C10_StartIsAValidPosition ==
    [][(ResolveStep /\ prefs.enabled /\ HasOwn(cssDB, call'.arg))
       => LET start == GetVersionSlice(erasDB, prefs)
          IN  /\ 0 <= start
              /\ start < Len(erasDB.entries)
              /\ erasDB.entries[start + 1] =
                   (IF prefs.era \in Range(erasDB.entries)
                    THEN prefs.era ELSE DefaultEra)
              /\ (prefs.era \notin Range(erasDB.entries) => IsList(result'))]_vars

----------------------------------------------------------------------------
(* C3 *)

\* C3: a load of text that cannot be decoded fails with an error and changes
\* none of the three tables, so every resolvePrefixes call returns what it
\* returned before the load.
C3_UndecodableLoadChangesNothing ==
    [][(/\ call'.op = "load"
        /\ call'.arg.kind = "string"
        /\ ~call'.arg.wellFormed
        /\ prefs' = prefs)
       => /\ result' = Thrown("SyntaxError")
          /\ vendorsDB' = vendorsDB
          /\ cssDB' = cssDB
          /\ erasDB' = erasDB
          /\ \A id \in Identifiers :
                ResolvePrefixes(vendorsDB', cssDB', erasDB', prefs, id) =
                ResolvePrefixes(vendorsDB, cssDB, erasDB, prefs, id)]_vars

\* An undecodable load has failed while tables of an earlier load are active.
C3_Witness ==
    /\ call.op = "load"
    /\ call.arg = BadText
    /\ result = Thrown("SyntaxError")
    /\ cssDB.kind = "object"
    /\ \E id \in Identifiers :
          IsList(ResolvePrefixes(vendorsDB, cssDB, erasDB, prefs, id))

----------------------------------------------------------------------------
(* C6 *)

\* C6: every list resolvePrefixes returns is in non-increasing order of
\* string length and holds each prefix once.
C6_SortedByLengthNoDuplicates ==
    (call.op = "resolvePrefixes" /\ IsList(result)) =>
       LET list == result.value.entries
       IN  /\ \A i, j \in DOMAIN list : i < j => Len(list[i]) >= Len(list[j])
           /\ \A i, j \in DOMAIN list : i # j => list[i] # list[j]

\* A list of two prefixes of different lengths was returned, one of them the
\* prefix of two vendors that both pushed it.
C6_Witness ==
    /\ call.op = "resolvePrefixes"
    /\ IsList(result)
    /\ result = ResolvePrefixes(vendorsDB, cssDB, erasDB, prefs, call.arg)
    /\ Len(result.value.entries) >= 2
    /\ Len(result.value.entries[1]) > Len(result.value.entries[2])
    /\ \E V, W \in Range(GetVendorsList(vendorsDB, prefs)) :
          /\ V # W
          /\ Get(vendorsDB, V).prefix = Get(vendorsDB, W).prefix
          /\ FlaggedPrefixes(vendorsDB, cssDB, <<V>>,
                             GetVersionSlice(erasDB, prefs), call.arg) # {}
          /\ FlaggedPrefixes(vendorsDB, cssDB, <<W>>,
                             GetVersionSlice(erasDB, prefs), call.arg) # {}

----------------------------------------------------------------------------
(* C7 *)

----------------------------------------------------------------------------
(* C8 *)

\* C8: after a successful load, eraOrder holds exactly the keys of the eras
\* section, each once, in strictly increasing order of the integer after the
\* leading e.
C8_ErasStrictlyIncreasing ==
    (call.op = "load" /\ result = Returned(Undefined)) =>
       LET input == Keys(Decoded(call.arg).eras)
           order == erasDB.entries
       IN  /\ erasDB.kind = "array"
           /\ Len(order) = Len(input)
           /\ Range(order) = Range(input)
           /\ \A i, j \in DOMAIN order :
                 i < j => EraNumber(order[i]) < EraNumber(order[j])

\* A section of three keys was loaded whose keys were out of order, one of
\* them negative and one of two digits.
C8_Witness ==
    /\ call.op = "load"
    /\ result = Returned(Undefined)
    /\ LET input == Keys(Decoded(call.arg).eras)
       IN  /\ Len(input) = 3
           /\ EraNumber(input[1]) > EraNumber(input[2])
           /\ EraNumber(input[2]) > EraNumber(input[3])
           /\ Era10 \in Range(input)
           /\ \E k \in Range(input) : EraNumber(k) < 0
           /\ Len(erasDB.entries) = 3

----------------------------------------------------------------------------
(* C9 *)

\* C9: a load with the argument of the load right before it leaves
\* resolvePrefixes returning, for every identifier, what it returned after
\* the first of the two.
C9_LoadIsIdempotent ==
    [][(/\ call.op = "load"
        /\ call'.op = "load"
        /\ call'.arg = call.arg
        /\ repeated'
        /\ prefs' = prefs)
       => \A id \in Identifiers :
             ResolvePrefixes(vendorsDB', cssDB', erasDB', prefs, id) =
             ResolvePrefixes(vendorsDB, cssDB, erasDB, prefs, id)]_vars

\* The same database was loaded twice in a row, and an identifier resolves
\* to a list that is not empty.
C9_Witness ==
    /\ repeated
    /\ call.op = "load"
    /\ result = Returned(Undefined)
    /\ \E id \in Identifiers :
          LET r == ResolvePrefixes(vendorsDB, cssDB, erasDB, prefs, id)
          IN  IsList(r) /\ r.value.entries # <<>>

====
